---- MODULE Spec2Model ----
(***************************************************************************)
(* The fixed-timestep physics core of src/main.rs: the player and ball     *)
(* motion integrators, the unit-step collision resolver                    *)
(* collision_system<T>, the two collision responses, and the FixedUpdate   *)
(* schedule that orders them.                                              *)
(*                                                                         *)
(* Numbers.  The program computes in f32.  Here every f32 is an exact      *)
(* fixed-point rational:                                                   *)
(*   - a velocity v px/s is the integer v * Scale;                         *)
(*   - a displacement or remainder of d px is the integer d * Pixel, with  *)
(*     Pixel = TICK_RATE * Scale, so that velocity * TIME_STEP is the      *)
(*     same integer read in remainder units;                               *)
(*   - var_jump_timer is counted in ticks (TIME_STEP = 1 tick);            *)
(*   - a translation is an integer number of pixels (the resolver only     *)
(*     ever adds or subtracts 1.0).                                        *)
(* Scale is chosen so that every value the model reaches is exact.         *)
(* World axes are bevy's: translation.y grows upwards, while a positive    *)
(* velocity.y moves the entity down (line 270 subtracts the step).         *)
(***************************************************************************)
EXTENDS Integers, Sequences, FiniteSets, TLC

\* Number of FixedUpdate ticks explored.
MaxTicks == 2
\* approach is called with val and target in -MaxVal..MaxVal
MaxVal == 3
\* ... and with max_move in 0..MaxMove
MaxMove == 8
\* A With<Player> or With<Ball> query matches 0..MaxEntities entities
MaxEntities == 2

\* ---- constants of src/main.rs, lines 51-66 ------------------------------
\* TIME_STEP = 1.0 / 60.0, kept as its reciprocal
TICK_RATE == 60
\* JUMP_SPEED = -105.
JUMP_SPEED == -105
MAX_RUN == 90
RUN_ACCEL == 1000
\* AIR_MULT = 0.65, in hundredths
AIR_MULT_PCT == 65
PLAYER_MAX_FALL_SPEED == 160
BALL_MAX_FALL_SPEED == 240
HALF_GRAV_THRESHOLD == 40
PLAYER_MASS == 900
BALL_MASS == 1500
MAX_BALL_BOUNCES == 1
GROUND_TILE_SIZE == 16
PLAYER_SIZE == 32
BALL_SIZE == 16
\* VAR_JUMP_TIME = 0.2 s = 1/5 s, in ticks
VAR_JUMP_TIME == TICK_RATE \div 5

\* ---- fixed-point units ---------------------------------------------------
\* 6 makes the per-tick accelerations 1000/60 and 650/60 integral, 8 leaves
\* three exact halvings for the restitution factor 1.5.
Scale == 6 * 8
\* 1.0 px in remainder units
Pixel == TICK_RATE * Scale

Vec(a, b) == [x |-> a, y |-> b]

Abs(n) == IF n < 0 THEN -n ELSE n
Min(a, b) == IF a < b THEN a ELSE b
Max(a, b) == IF a > b THEN a ELSE b

\* f32::round of a remainder, as a count of whole pixels: to the nearest
\* integer, halves away from zero.
round(r) ==
    IF r >= 0 THEN (2 * r + Pixel) \div (2 * Pixel)
    ELSE -((2 * (-r) + Pixel) \div (2 * Pixel))

\* `x *= -1.5`
times_restitution(v) == (v * (-3)) \div 2

\* Faulty variant of approach: the step is taken whole, without the clamp at
\* the target.
approach_unclamped(val, target, max_move) ==
    IF val > target THEN val - max_move ELSE val + max_move

approach(val, target, max_move) ==
    IF val > target THEN Max(target, val - max_move)
    ELSE Min(target, val + max_move)

\* RUN_ACCEL * mult * TIME_STEP with mult = 1. on the ground, AIR_MULT off it
run_velocity_x(movement, direction) ==
    LET mult_pct == IF movement.on_ground THEN 100 ELSE AIR_MULT_PCT
    IN approach(movement.velocity.x,
                MAX_RUN * Scale * direction,
                (RUN_ACCEL * mult_pct * Scale) \div (100 * TICK_RATE))

sign(number) == IF number < 0 THEN -1 ELSE IF number > 0 THEN 1 ELSE 0

\* ---- state ----------------------------------------------------------------
VARIABLES
    solids,     \* the Solid entities: a set of [translation, scale]
    player,     \* the Player entity: [translation, size, movement, jump]
    ball,       \* the Ball entity: [translation, size, movement, bounces]
    events,     \* [Player, Ball]: the unread SolidCollisionEvent<T> of each kind
    keys,       \* Input<KeyCode> as the player integrator last sampled it
    done,       \* the systems that have run in the current tick
    tick,       \* number of completed ticks
    plast,      \* log: the last Player-track system run, the player before it
    blast,      \* log: the last Ball-track system run, the ball before it,
                \*      and the bounce counter met by each Y-collision response
    start,      \* log: player and ball as the current tick began
    players,    \* the entities a With<Player> query matches, in query order
    balls,      \* the entities a With<Ball> query matches, in query order
    panicked,   \* the system whose panic has ended the process, or "none"
    call        \* a call of approach: its arguments and, once returned, result

vars == <<solids, player, ball, events, keys, done, tick, plast, blast, start,
          players, balls, panicked, call>>

\* the state of the entity queries
queries == <<players, balls, panicked>>

\* ---- motion integrators ---------------------------------------------------
\* PLAYER_MASS * mult * TIME_STEP, mult = 0.5 or 1.0 (lines 105-110, 115)
player_gravity_step(velocity_y, is_jump_key_down) ==
    IF Abs(velocity_y) < HALF_GRAV_THRESHOLD * Scale /\ is_jump_key_down
    THEN (PLAYER_MASS * Scale) \div (2 * TICK_RATE)
    ELSE (PLAYER_MASS * Scale) \div TICK_RATE

\* One run of player_movement_system on the player p under the sampled keys k
\* (the Racket marker and the animation indices carry no physics).
player_movement_system(p, k) ==
    LET m0 == p.movement
        vy1 == approach(m0.velocity.y, PLAYER_MAX_FALL_SPEED * Scale,
                        player_gravity_step(m0.velocity.y, k.jump))
        timer0 == p.jump.var_jump_timer
        vy2 == IF timer0 > 0 /\ k.jump
               THEN Min(p.jump.var_jump_speed, vy1)
               ELSE vy1
        timer1 == IF timer0 > 0
                  THEN (IF k.jump THEN timer0 - 1 ELSE 0)
                  ELSE timer0
        direction == IF k.left THEN -1 ELSE IF k.right THEN 1 ELSE 0
        vx == run_velocity_x(m0, direction)
        init_jump == k.jump_just /\ m0.on_ground
        vy3 == IF init_jump THEN vy2 - JUMP_SPEED * Scale ELSE vy2
    IN [p EXCEPT
          !.movement.velocity = Vec(vx, vy3),
          !.jump.var_jump_timer = IF init_jump THEN VAR_JUMP_TIME ELSE timer1,
          !.jump.var_jump_speed = IF init_jump THEN JUMP_SPEED * Scale ELSE @]

\* Faulty variant of ball_movement_system: gravity also pulls a ball that is
\* on the ground.
ball_movement_system_heavy(movement) ==
    [movement EXCEPT
        !.velocity.y = approach(@, BALL_MAX_FALL_SPEED * Scale,
                                (BALL_MASS * Scale) \div TICK_RATE)]

\* Faulty variant of ball_movement_system: no gravity at all.
ball_movement_system_weightless(movement) == movement

\* One run of ball_movement_system on the ball's Movement.
ball_movement_system(movement) ==
    IF ~movement.on_ground
    THEN [movement EXCEPT
            !.velocity.y = approach(@, BALL_MAX_FALL_SPEED * Scale,
                                    (BALL_MASS * Scale) \div TICK_RATE)]
    ELSE movement

\* ---- collision resolver ---------------------------------------------------
\* bevy::sprite::collide_aabb::collide(a_pos, a_size, b_pos, b_size).is_some():
\* the rectangles centred on a_pos and b_pos overlap with positive area.
\* Coordinates are doubled so that half sizes stay integral.
collide(a_pos, a_size, b_pos, b_size) ==
    /\ 2 * a_pos.x - a_size.x < 2 * b_pos.x + b_size.x
    /\ 2 * a_pos.x + a_size.x > 2 * b_pos.x - b_size.x
    /\ 2 * a_pos.y - a_size.y < 2 * b_pos.y + b_size.y
    /\ 2 * a_pos.y + a_size.y > 2 * b_pos.y - b_size.y

\* The inner `for solid_transform in &solid_query` loop: some solid collides
\* with the entity placed at new_kin_pos.
hits_solid(new_kin_pos, entity_size) ==
    \E solid_transform \in solids :
        collide(solid_transform.translation, solid_transform.scale,
                new_kin_pos, entity_size)

\* Faulty variant of step_x: the solids are tested for the first unit step only, and
\* then the whole move is committed.
step_x_once(translation, entity_size, move_x, move_sign, path) ==
    IF move_x = 0
    THEN [translation |-> translation, collided |-> FALSE, path |-> path]
    ELSE IF hits_solid(Vec(translation.x + move_sign, translation.y),
                       entity_size)
         THEN [translation |-> translation, collided |-> TRUE, path |-> path]
         ELSE [translation |-> Vec(translation.x + move_x, translation.y),
               collided |-> FALSE,
               path |-> path \o
                   [i \in 1..Abs(move_x) |->
                       Vec(translation.x + move_sign * i, translation.y)]]

\* The X `while move_x != 0 && !collided_x` loop.  path collects the
\* translations committed so far.
RECURSIVE step_x(_, _, _, _, _)
step_x(translation, entity_size, move_x, move_sign, path) ==
    IF move_x = 0
    THEN [translation |-> translation, collided |-> FALSE, path |-> path]
    ELSE LET new_kin_pos == Vec(translation.x + move_sign, translation.y)
         IN IF hits_solid(new_kin_pos, entity_size)
            THEN [translation |-> translation, collided |-> TRUE, path |-> path]
            ELSE step_x(new_kin_pos, entity_size, move_x - move_sign, move_sign,
                        Append(path, new_kin_pos))

\* Faulty variant of step_y: the solids are tested at translation + move_sign, the
\* step is committed at translation - move_sign.
RECURSIVE step_y_plus(_, _, _, _, _)
step_y_plus(translation, entity_size, move_y, move_sign, path) ==
    IF move_y = 0
    THEN [translation |-> translation, collided |-> FALSE, path |-> path]
    ELSE IF hits_solid(Vec(translation.x, translation.y + move_sign),
                       entity_size)
         THEN [translation |-> translation, collided |-> TRUE, path |-> path]
         ELSE step_y_plus(Vec(translation.x, translation.y - move_sign),
                          entity_size, move_y - move_sign, move_sign,
                          Append(path,
                                 Vec(translation.x, translation.y - move_sign)))

\* The Y `while move_y != 0 && !collided_y` loop: a positive step moves down.
RECURSIVE step_y(_, _, _, _, _)
step_y(translation, entity_size, move_y, move_sign, path) ==
    IF move_y = 0
    THEN [translation |-> translation, collided |-> FALSE, path |-> path]
    ELSE LET new_kin_pos == Vec(translation.x, translation.y - move_sign)
         IN IF hits_solid(new_kin_pos, entity_size)
            THEN [translation |-> translation, collided |-> TRUE, path |-> path]
            ELSE step_y(new_kin_pos, entity_size, move_y - move_sign, move_sign,
                        Append(path, new_kin_pos))

\* Faulty variant of leftover: the whole steps are not taken out of the remainder.
leftover_kept(remainder, move) == remainder

\* `velocity_remainder.axis -= move as f32`
leftover(remainder, move) == remainder - move * Pixel

\* Faulty variant of collision_system: on_ground is written on every run,
\* also when no Y step is requested.
collision_system_ground_each_run(movement, translation, entity_size) ==
    LET rx == movement.velocity_remainder.x + movement.velocity.x
        ry == movement.velocity_remainder.y + movement.velocity.y
        move_x == round(rx)
        xs == step_x(translation, entity_size, move_x, sign(move_x), <<>>)
        move_y == round(ry)
        ys == step_y(xs.translation, entity_size, move_y, sign(move_y), xs.path)
    IN [movement |->
            [velocity |-> movement.velocity,
             velocity_remainder |->
                 Vec(IF move_x # 0 THEN leftover(rx, move_x) ELSE rx,
                     IF move_y # 0 THEN leftover(ry, move_y) ELSE ry),
             on_ground |-> ys.collided],
        translation |-> ys.translation,
        collided_x |-> xs.collided,
        collided_y |-> ys.collided,
        move_x |-> move_x,
        move_y |-> move_y,
        after_x |-> xs.translation,
        path |-> ys.path]

\* One run of collision_system<T> on the entity with this Movement, Transform
\* and Size.  The result carries the new Movement and translation, the two
\* collision flags, and for the log the requested steps, the translation
\* between the two passes and the committed translations in order.
collision_system(movement, translation, entity_size) ==
    LET rx == movement.velocity_remainder.x + movement.velocity.x
        ry == movement.velocity_remainder.y + movement.velocity.y
        move_x == round(rx)
        xs == step_x(translation, entity_size, move_x, sign(move_x), <<>>)
        move_y == round(ry)
        ys == step_y(xs.translation, entity_size, move_y, sign(move_y), xs.path)
    IN [movement |->
            [velocity |-> movement.velocity,
             velocity_remainder |->
                 Vec(IF move_x # 0 THEN leftover(rx, move_x) ELSE rx,
                     IF move_y # 0 THEN leftover(ry, move_y) ELSE ry),
             on_ground |-> IF move_y # 0 THEN ys.collided
                           ELSE movement.on_ground],
        translation |-> ys.translation,
        collided_x |-> xs.collided,
        collided_y |-> ys.collided,
        move_x |-> move_x,
        move_y |-> move_y,
        after_x |-> xs.translation,
        path |-> ys.path]

\* Faulty variant of emitted: a collision on X alone sends nothing.
emitted_y_only(kind, res) ==
    IF res.collided_y
    THEN <<[collider |-> kind, collided_x |-> res.collided_x,
            collided_y |-> res.collided_y]>>
    ELSE <<>>

\* collision_events.send(..) when either axis collided
emitted(kind, res) ==
    IF res.collided_x \/ res.collided_y
    THEN <<[collider |-> kind, collided_x |-> res.collided_x,
            collided_y |-> res.collided_y]>>
    ELSE <<>>

\* ---- collision responses --------------------------------------------------
\* Faulty variant of player_response: a Y collision leaves velocity.y alone.
player_response_x_only(movement, event) ==
    [movement EXCEPT !.velocity.x = IF event.collided_x THEN 0 ELSE @]

\* Faulty variant of player_response: any collision stops the player on both
\* axes.
player_response_stop(movement, event) ==
    [movement EXCEPT
        !.velocity = IF event.collided_x \/ event.collided_y
                     THEN Vec(0, 0) ELSE @]

\* The body of player_collision_response_system's loop for one event.
player_response(movement, event) ==
    [movement EXCEPT
        !.velocity.x = IF event.collided_x THEN 0 ELSE @,
        !.velocity.y = IF event.collided_y THEN 0 ELSE @]

RECURSIVE player_collision_response_system(_, _)
player_collision_response_system(movement, evs) ==
    IF evs = <<>> THEN movement
    ELSE player_collision_response_system(player_response(movement, Head(evs)),
                                          Tail(evs))

\* Faulty variant of ball_response: lands only above the limit (> for >=).
ball_response_gt(b, event) ==
    LET vx == IF event.collided_x
              THEN times_restitution(b.movement.velocity.x)
              ELSE b.movement.velocity.x
    IN IF event.collided_y
       THEN IF b.bounces > MAX_BALL_BOUNCES
            THEN [b EXCEPT !.movement.velocity = Vec(vx, 0),
                           !.movement.on_ground = TRUE,
                           !.bounces = 0]
            ELSE [b EXCEPT !.movement.velocity =
                               Vec(vx, times_restitution(b.movement.velocity.y)),
                           !.bounces = @ + 1]
       ELSE [b EXCEPT !.movement.velocity.x = vx]

\* Faulty variant of ball_response: a bounce reverses velocity.y without amplifying.
ball_response_elastic(b, event) ==
    LET vx == IF event.collided_x
              THEN times_restitution(b.movement.velocity.x)
              ELSE b.movement.velocity.x
    IN IF event.collided_y
       THEN IF b.bounces >= MAX_BALL_BOUNCES
            THEN [b EXCEPT !.movement.velocity = Vec(vx, 0),
                           !.movement.on_ground = TRUE,
                           !.bounces = 0]
            ELSE [b EXCEPT !.movement.velocity =
                               Vec(vx, -b.movement.velocity.y),
                           !.bounces = @ + 1]
       ELSE [b EXCEPT !.movement.velocity.x = vx]

\* Faulty variant of ball_response: a landing keeps the bounce counter.
ball_response_keep(b, event) ==
    LET vx == IF event.collided_x
              THEN times_restitution(b.movement.velocity.x)
              ELSE b.movement.velocity.x
    IN IF event.collided_y
       THEN IF b.bounces >= MAX_BALL_BOUNCES
            THEN [b EXCEPT !.movement.velocity = Vec(vx, 0),
                           !.movement.on_ground = TRUE]
            ELSE [b EXCEPT !.movement.velocity =
                               Vec(vx, times_restitution(b.movement.velocity.y)),
                           !.bounces = @ + 1]
       ELSE [b EXCEPT !.movement.velocity.x = vx]

\* Faulty variant of ball_response: the X bounce is skipped once the bounce limit is
\* reached.
ball_response_x_limited(b, event) ==
    LET vx == IF event.collided_x /\ b.bounces < MAX_BALL_BOUNCES
              THEN times_restitution(b.movement.velocity.x)
              ELSE b.movement.velocity.x
    IN IF event.collided_y
       THEN IF b.bounces >= MAX_BALL_BOUNCES
            THEN [b EXCEPT !.movement.velocity = Vec(vx, 0),
                           !.movement.on_ground = TRUE,
                           !.bounces = 0]
            ELSE [b EXCEPT !.movement.velocity =
                               Vec(vx, times_restitution(b.movement.velocity.y)),
                           !.bounces = @ + 1]
       ELSE [b EXCEPT !.movement.velocity.x = vx]

\* The body of ball_collision_response_system's loop for one event, on the
\* ball b = [translation, size, movement, bounces].
ball_response(b, event) ==
    LET vx == IF event.collided_x
              THEN times_restitution(b.movement.velocity.x)
              ELSE b.movement.velocity.x
    IN IF event.collided_y
       THEN IF b.bounces >= MAX_BALL_BOUNCES
            THEN [b EXCEPT !.movement.velocity = Vec(vx, 0),
                           !.movement.on_ground = TRUE,
                           !.bounces = 0]
            ELSE [b EXCEPT !.movement.velocity =
                               Vec(vx, times_restitution(b.movement.velocity.y)),
                           !.bounces = @ + 1]
       ELSE [b EXCEPT !.movement.velocity.x = vx]

RECURSIVE ball_collision_response_system(_, _)
ball_collision_response_system(b, evs) ==
    IF evs = <<>> THEN b
    ELSE ball_collision_response_system(ball_response(b, Head(evs)), Tail(evs))

\* ---- levels ---------------------------------------------------------------
Solid(cx, cy, w, h) == [translation |-> Vec(cx, cy), scale |-> Vec(w, h)]

\* Movement with velocity in px/s and remainder in remainder units
Movement(vx, vy, rx, ry, on_ground) ==
    [velocity |-> Vec(vx * Scale, vy * Scale),
     velocity_remainder |-> Vec(rx, ry),
     on_ground |-> on_ground]

Player(x, y, movement) ==
    [translation |-> Vec(x, y), size |-> Vec(PLAYER_SIZE, PLAYER_SIZE),
     movement |-> movement,
     jump |-> [var_jump_timer |-> 0, var_jump_speed |-> 0]]

\* A player in the variable-jump window, timer ticks after the jump began
Jumping(p, timer) ==
    [p EXCEPT !.jump = [var_jump_timer |-> timer,
                        var_jump_speed |-> JUMP_SPEED * Scale]]

Ball(x, y, movement, bounces) ==
    [translation |-> Vec(x, y), size |-> Vec(BALL_SIZE, BALL_SIZE),
     movement |-> movement, bounces |-> bounces]

\* The ground Solid that setup_system spawns for a width x height window.
ground(width, height) ==
    Solid(0, -(height \div 2) + GROUND_TILE_SIZE \div 2, width, GROUND_TILE_SIZE)

\* What setup_system spawns: the player at the origin, the ground along the
\* bottom edge of the window, the ball at (64, 0); Movement, Jump and Bounces
\* zeroed.
setup_system(width, height) ==
    [solids |-> {ground(width, height)},
     player |-> Player(0, 0, Movement(0, 0, 0, 0, FALSE)),
     ball |-> Ball(64, 0, Movement(0, 0, 0, 0, FALSE), 0)]

\* The default bevy window is 1280 x 720: the ground's top edge is at
\* y = -344, a resting player's centre at -328, a resting ball's at -336.
Court == {ground(1280, 720)}
\* The court with a wall 2 px thick, 3 px to the right of a ball at x = 64
\* and of a player at x = 56.
Walled == Court \cup {Solid(76, -200, 2, 400)}
\* The walled court with a canopy over 40 <= x <= 88 whose underside, at
\* y = -311, is 1 px above a ball at y = -320.
Box == Walled \cup {Solid(64, -303, 48, 16)}
\* The court with a shelf whose underside touches the top of a ball resting
\* at x = 64.
Shelf == Court \cup {Solid(64, -320, 32, 16)}

\* Levels: the states the tick loop is started in.  Besides the state
\* setup_system builds, states of play the loop passes through (resting,
\* falling, about to hit the ground or a wall), so that every branch of the
\* systems is met within MaxTicks ticks.
Levels ==
    { setup_system(1280, 720),
      \* player at rest; ball 1 tick from its first bounce at +50 px/s, under
      \* the shelf
      [solids |-> Shelf,
       player |-> Player(0, -328, Movement(0, 0, 0, 0, TRUE)),
       ball |-> Ball(64, -336, Movement(0, 25, 0, 0, FALSE), 0)],
      \* player at rest with a carried remainder; ball about to land
      [solids |-> Court,
       player |-> Player(0, -328, Movement(0, 0, 0, Pixel \div 4, TRUE)),
       ball |-> Ball(64, -336, Movement(0, 25, 0, Pixel \div 12, FALSE), 1)],
      \* player at rest with remainders of exactly one half; ball falling fast
      [solids |-> Court,
       player |-> Player(0, -328,
                         Movement(0, 0, Pixel \div 2, -(Pixel \div 2), TRUE)),
       ball |-> Ball(64, -330, Movement(0, 240, 0, 0, FALSE), 0)],
      \* player running at full speed towards the wall; ball flying at the
      \* thin wall at 22 px per tick
      [solids |-> Walled,
       player |-> Player(56, -328, Movement(90, 0, 0, 0, TRUE)),
       ball |-> Ball(64, -100, Movement(1320, 0, 0, 0, FALSE), 0)],
      \* player falling at the cap and landing; ball after its bounce, rising
      \* towards the canopy and drifting into the wall
      [solids |-> Box,
       player |-> Player(0, -326, Movement(-90, 160, 0, 0, FALSE)),
       ball |-> Ball(64, -321, Movement(120, -100, 0, 0, FALSE), 1)],
      \* player two ticks into a jump, rising; ball before its bounce, rising
      \* into the canopy
      [solids |-> Box,
       player |-> Jumping(Player(0, -328, Movement(0, -105, 0, 0, FALSE)), 10),
       ball |-> Ball(56, -320, Movement(-120, -100, 0, 0, FALSE), 0)],
      \* player running at full speed, 1 px from the wall; ball at rest where
      \* it landed
      [solids |-> Walled,
       player |-> Player(58, -328, Movement(90, 0, 0, 0, TRUE)),
       ball |-> Ball(64, -336, Movement(0, 0, 0, -(Pixel \div 4), TRUE), 0)] }

\* ---- the tick loop --------------------------------------------------------
Keys == [left : BOOLEAN, right : BOOLEAN, jump : BOOLEAN, jump_just : BOOLEAN]

Systems == {"player_movement_system", "collision_system_Player",
            "player_collision_response_system",
            "ball_movement_system", "collision_system_Ball",
            "ball_collision_response_system"}

\* a log entry before any system has run on the entity e
no_run(e) ==
    [sys |-> "none", pre |-> e, evs |-> <<>>, y_hits |-> <<>>,
     res |-> [movement |-> e.movement, translation |-> e.translation,
              collided_x |-> FALSE, collided_y |-> FALSE,
              move_x |-> 0, move_y |-> 0,
              after_x |-> e.translation, path |-> <<>>]]

\* no call of approach is in progress
no_call ==
    [val |-> 0, target |-> 0, max_move |-> 0, result |-> 0, returned |-> FALSE]

\* The world as Startup leaves it for a level: no notification pending, no
\* key pressed, no system run yet.
Loaded(level) ==
    /\ solids = level.solids
    /\ player = level.player
    /\ ball = level.ball
    /\ events = [Player |-> <<>>, Ball |-> <<>>]
    /\ keys = [left |-> FALSE, right |-> FALSE, jump |-> FALSE,
               jump_just |-> FALSE]
    /\ done = {}
    /\ tick = 0
    /\ plast = no_run(level.player)
    /\ blast = no_run(level.ball)
    /\ start = [player |-> level.player, ball |-> level.ball]

\* The tick loop about to start on a level.  It runs on the one player and
\* the one ball of the level: the open-ended queries and the call record are
\* not in use.
Start(level) ==
    /\ Loaded(level)
    /\ players = <<>>
    /\ balls = <<>>
    /\ panicked = "none"
    /\ call = no_call

Init == \E level \in Levels : Start(level)

\* Faulty variant of Ready: the .after() constraints are left out, so a
\* system may run before the systems it is declared after.
Ready_unordered(s, before) ==
    /\ tick < MaxTicks
    /\ s \notin done

\* May system s run now: not yet run in this tick, and every system it is
\* declared .after() has.
Ready(s, before) ==
    /\ tick < MaxTicks
    /\ s \notin done
    /\ before \subseteq done

PlayerMovement ==
    /\ Ready("player_movement_system", {})
    /\ \E k \in Keys :
        /\ keys' = k
        /\ player' = player_movement_system(player, k)
    /\ done' = done \cup {"player_movement_system"}
    /\ plast' = [plast EXCEPT !.sys = "move", !.pre = player]
    /\ UNCHANGED <<solids, ball, events, tick, blast, start, queries, call>>

PlayerCollision ==
    /\ Ready("collision_system_Player", {"player_movement_system"})
    /\ LET res == collision_system(player.movement, player.translation,
                                   player.size)
       IN /\ player' = [player EXCEPT !.movement = res.movement,
                                      !.translation = res.translation]
          /\ events' = [events EXCEPT !.Player = @ \o emitted("Player", res)]
          /\ plast' = [plast EXCEPT !.sys = "collide", !.pre = player,
                                    !.res = res]
    /\ done' = done \cup {"collision_system_Player"}
    /\ UNCHANGED <<solids, ball, keys, tick, blast, start, queries, call>>

\* Faulty variant of PlayerResponse: the notifications are read but left in
\* the queue, where the next tick's response meets them again.
PlayerResponse_peek ==
    /\ Ready("player_collision_response_system", {"collision_system_Player"})
    /\ player' = [player EXCEPT !.movement =
                      player_collision_response_system(@, events.Player)]
    /\ plast' = [plast EXCEPT !.sys = "respond", !.pre = player,
                              !.evs = events.Player]
    /\ done' = done \cup {"player_collision_response_system"}
    /\ UNCHANGED <<solids, ball, events, keys, tick, blast, start, queries,
                   call>>

\* Faulty variant of PlayerResponse: the notifications of both kinds reach
\* the player response, which stops whichever entity a notification names.
PlayerResponse_any_kind ==
    /\ Ready("player_collision_response_system", {"collision_system_Player"})
    /\ player' = [player EXCEPT !.movement =
                      player_collision_response_system(@, events.Player)]
    /\ ball' = [ball EXCEPT !.movement =
                    player_collision_response_system(@, events.Ball)]
    /\ events' = [events EXCEPT !.Player = <<>>]
    /\ plast' = [plast EXCEPT !.sys = "respond", !.pre = player,
                              !.evs = events.Player]
    /\ done' = done \cup {"player_collision_response_system"}
    /\ UNCHANGED <<solids, keys, tick, blast, start, queries, call>>

PlayerResponse ==
    /\ Ready("player_collision_response_system", {"collision_system_Player"})
    /\ player' = [player EXCEPT !.movement =
                      player_collision_response_system(@, events.Player)]
    /\ events' = [events EXCEPT !.Player = <<>>]
    /\ plast' = [plast EXCEPT !.sys = "respond", !.pre = player,
                              !.evs = events.Player]
    /\ done' = done \cup {"player_collision_response_system"}
    /\ UNCHANGED <<solids, ball, keys, tick, blast, start, queries, call>>

BallMovement ==
    /\ Ready("ball_movement_system", {})
    /\ ball' = [ball EXCEPT !.movement = ball_movement_system(@)]
    /\ done' = done \cup {"ball_movement_system"}
    /\ blast' = [blast EXCEPT !.sys = "move", !.pre = ball]
    /\ UNCHANGED <<solids, player, events, keys, tick, plast, start,
                   queries, call>>

BallCollision ==
    /\ Ready("collision_system_Ball", {"ball_movement_system"})
    /\ LET res == collision_system(ball.movement, ball.translation,
                                   ball.size)
       IN /\ ball' = [ball EXCEPT !.movement = res.movement,
                                  !.translation = res.translation]
          /\ events' = [events EXCEPT !.Ball = @ \o emitted("Ball", res)]
          /\ blast' = [blast EXCEPT !.sys = "collide", !.pre = ball,
                                    !.res = res]
    /\ done' = done \cup {"collision_system_Ball"}
    /\ UNCHANGED <<solids, player, keys, tick, plast, start, queries, call>>

BallResponse ==
    /\ Ready("ball_collision_response_system", {"collision_system_Ball"})
    /\ ball' = ball_collision_response_system(ball, events.Ball)
    /\ events' = [events EXCEPT !.Ball = <<>>]
    /\ blast' = [blast EXCEPT
                     !.sys = "respond", !.pre = ball, !.evs = events.Ball,
                     !.y_hits = IF \E i \in 1..Len(events.Ball) :
                                       events.Ball[i].collided_y
                                THEN Append(@, ball.bounces) ELSE @]
    /\ done' = done \cup {"ball_collision_response_system"}
    /\ UNCHANGED <<solids, player, keys, tick, plast, start, queries, call>>

\* The FixedUpdate schedule has run every system: the next tick begins.
EndTick ==
    /\ done = Systems
    /\ done' = {}
    /\ tick' = tick + 1
    /\ start' = [player |-> player, ball |-> ball]
    /\ UNCHANGED <<solids, player, ball, events, keys, plast, blast,
                   queries, call>>

Next ==
    \/ PlayerMovement
    \/ PlayerCollision
    \/ PlayerResponse
    \/ BallMovement
    \/ BallCollision
    \/ BallResponse
    \/ EndTick

Spec == Init /\ [][Next]_vars

\* ---- approach on its own ---------------------------------------------------
\* The arguments of one call of approach: every val and target of the range
\* and every max_move from 0 to beyond the largest distance between them.
ApproachInit ==
    /\ Loaded(setup_system(1280, 720))
    /\ players = <<>>
    /\ balls = <<>>
    /\ panicked = "none"
    /\ call \in [val : -MaxVal..MaxVal, target : -MaxVal..MaxVal,
                 max_move : 0..MaxMove, result : {0}, returned : {FALSE}]

\* The call returns.
ApproachCall ==
    /\ ~call.returned
    /\ call' = [call EXCEPT
                   !.result = approach(call.val, call.target, call.max_move),
                   !.returned = TRUE]
    /\ UNCHANGED <<solids, player, ball, events, keys, done, tick, plast,
                   blast, start, queries>>

ApproachSpec == ApproachInit /\ [][ApproachCall]_vars

\* ---- the entity queries ----------------------------------------------------
\* The systems of one tick on a world in which the number of Player and of
\* Ball entities is open.  A panic ends the process: no system runs after it.
\* (The variables player and ball, the loop's singletons, are not in use.)
PlayerCast ==
    {Player(0, 0, Movement(0, 0, 0, 0, FALSE)),
     Player(0, -328, Movement(0, 0, 0, Pixel \div 4, TRUE))}

BallCast ==
    {Ball(64, 0, Movement(0, 0, 0, 0, FALSE), 0),
     Ball(64, -336, Movement(0, 25, 0, Pixel \div 12, FALSE), 1)}

\* every sequence of 0..MaxEntities entities of the cast
Crowds(cast) == UNION {[1..n -> cast] : n \in 0..MaxEntities}

QueryInit ==
    /\ Loaded(setup_system(1280, 720))
    /\ players \in Crowds(PlayerCast)
    /\ balls \in Crowds(BallCast)
    /\ panicked = "none"
    /\ call = no_call

\* player_movement_system: `for ... in &mut query` visits every match.
QueryPlayerMovement ==
    /\ panicked = "none"
    /\ Ready("player_movement_system", {})
    /\ \E k \in Keys :
        /\ keys' = k
        /\ players' = [i \in 1..Len(players) |->
                          player_movement_system(players[i], k)]
    /\ done' = done \cup {"player_movement_system"}
    /\ UNCHANGED <<solids, player, ball, events, tick, plast, blast, start,
                   balls, panicked, call>>

\* collision_system::<Player>: `entity_query.single_mut()` panics unless
\* exactly one entity matches.
QueryPlayerCollision ==
    /\ panicked = "none"
    /\ Ready("collision_system_Player", {"player_movement_system"})
    /\ IF Len(players) = 1
       THEN LET res == collision_system(players[1].movement,
                                        players[1].translation,
                                        players[1].size)
            IN /\ players' = <<[players[1] EXCEPT
                                   !.movement = res.movement,
                                   !.translation = res.translation]>>
               /\ events' = [events EXCEPT
                                !.Player = @ \o emitted("Player", res)]
               /\ done' = done \cup {"collision_system_Player"}
               /\ UNCHANGED panicked
       ELSE /\ panicked' = "collision_system_Player"
            /\ UNCHANGED <<players, events, done>>
    /\ UNCHANGED <<solids, player, ball, keys, tick, plast, blast, start,
                   balls, call>>

\* player_collision_response_system: `query.get_mut(event.collider)`, the
\* collider being the one entity the resolver has run on.
QueryPlayerResponse ==
    /\ panicked = "none"
    /\ Ready("player_collision_response_system", {"collision_system_Player"})
    /\ players' = <<[players[1] EXCEPT !.movement =
                         player_collision_response_system(@, events.Player)]>>
    /\ events' = [events EXCEPT !.Player = <<>>]
    /\ done' = done \cup {"player_collision_response_system"}
    /\ UNCHANGED <<solids, player, ball, keys, tick, plast, blast, start,
                   balls, panicked, call>>

\* ball_movement_system: `query.get_single_mut().unwrap()` panics unless
\* exactly one entity matches.
QueryBallMovement ==
    /\ panicked = "none"
    /\ Ready("ball_movement_system", {})
    /\ IF Len(balls) = 1
       THEN /\ balls' = <<[balls[1] EXCEPT
                              !.movement = ball_movement_system(@)]>>
            /\ done' = done \cup {"ball_movement_system"}
            /\ UNCHANGED panicked
       ELSE /\ panicked' = "ball_movement_system"
            /\ UNCHANGED <<balls, done>>
    /\ UNCHANGED <<solids, player, ball, events, keys, tick, plast, blast,
                   start, players, call>>

\* collision_system::<Ball>
QueryBallCollision ==
    /\ panicked = "none"
    /\ Ready("collision_system_Ball", {"ball_movement_system"})
    /\ IF Len(balls) = 1
       THEN LET res == collision_system(balls[1].movement,
                                        balls[1].translation, balls[1].size)
            IN /\ balls' = <<[balls[1] EXCEPT
                                 !.movement = res.movement,
                                 !.translation = res.translation]>>
               /\ events' = [events EXCEPT
                                !.Ball = @ \o emitted("Ball", res)]
               /\ done' = done \cup {"collision_system_Ball"}
               /\ UNCHANGED panicked
       ELSE /\ panicked' = "collision_system_Ball"
            /\ UNCHANGED <<balls, events, done>>
    /\ UNCHANGED <<solids, player, ball, keys, tick, plast, blast, start,
                   players, call>>

\* ball_collision_response_system
QueryBallResponse ==
    /\ panicked = "none"
    /\ Ready("ball_collision_response_system", {"collision_system_Ball"})
    /\ balls' = <<ball_collision_response_system(balls[1], events.Ball)>>
    /\ events' = [events EXCEPT !.Ball = <<>>]
    /\ done' = done \cup {"ball_collision_response_system"}
    /\ UNCHANGED <<solids, player, ball, keys, tick, plast, blast, start,
                   players, panicked, call>>

QueryNext ==
    \/ QueryPlayerMovement
    \/ QueryPlayerCollision
    \/ QueryPlayerResponse
    \/ QueryBallMovement
    \/ QueryBallCollision
    \/ QueryBallResponse

QuerySpec == QueryInit /\ [][QueryNext]_vars

\* ---- the loop left to itself -----------------------------------------------
\* The tick loop with no key ever pressed, run for as long as the process
\* lives: the ticks are not counted.
released ==
    [left |-> FALSE, right |-> FALSE, jump |-> FALSE, jump_just |-> FALSE]

\* Window heights setup_system is run with.
Windows == {240, 480, 720}

\* The court with a lid over 56 <= x <= 72 whose underside, at y = -323, is
\* 4 px above a ball that hangs 1 px above the ground.
Lidded == Court \cup {Solid(64, -315, 16, 16)}

\* The levels the loop is left to itself on: what setup_system builds, and a
\* lidded court with the ball between ground and lid, Movement zeroed as
\* setup_system leaves it.
RunLevels ==
    {setup_system(1280, height) : height \in Windows}
    \cup {[solids |-> Lidded,
           player |-> Player(0, -328, Movement(0, 0, 0, 0, FALSE)),
           ball |-> Ball(64, -335, Movement(0, 0, 0, 0, FALSE), 0)]}

RunInit == \E level \in RunLevels : Start(level)

\* player_movement_system with every key released
IdlePlayerMovement == PlayerMovement /\ keys' = released

\* The FixedUpdate schedule has run every system and starts over.
NextTick ==
    /\ done = Systems
    /\ done' = {}
    /\ start' = [player |-> player, ball |-> ball]
    /\ UNCHANGED <<solids, player, ball, events, keys, tick, plast, blast,
                   queries, call>>

RunNext ==
    \/ IdlePlayerMovement
    \/ PlayerCollision
    \/ PlayerResponse
    \/ BallMovement
    \/ BallCollision
    \/ BallResponse
    \/ NextTick

\* FixedUpdate runs every TIME_STEP for as long as the process lives, and a
\* run of the schedule runs each of its systems.
RunSpec == RunInit /\ [][RunNext]_vars /\ WF_vars(RunNext)

\* ==== properties ===========================================================
\* the entities a resolver log entry speaks of: <<log, entity now>>
Resolved ==
    {<<l, e>> \in {<<plast, player>>, <<blast, ball>>} : l.sys = "collide"}

\* C1: after every invocation of collision_system, on either entity and
\* whether or not an axis was blocked, both components of velocity_remainder
\* are below 1.0 px in absolute value.
C1_RemainderBelowOne ==
    \A le \in Resolved :
        /\ Abs(le[2].movement.velocity_remainder.x) < Pixel
        /\ Abs(le[2].movement.velocity_remainder.y) < Pixel

\* C1 witness: a resolver run that was blocked on Y after taking whole steps
\* out of the remainder, leaving a non-zero fraction, and one that moved
\* freely on X.
C1_Witness ==
    /\ plast.sys = "collide"
    /\ plast.res.collided_y
    /\ plast.res.move_y # 0
    /\ player.movement.velocity_remainder.y # 0
    /\ plast.res.move_x # 0
    /\ ~plast.res.collided_x

\* C2: if the entity overlaps no solid when collision_system starts, then it
\* overlaps no solid after any committed unit step, nor when the system
\* returns.
C2_NoOverlapCommitted ==
    \A le \in Resolved :
        ~hits_solid(le[1].pre.translation, le[2].size) =>
            /\ \A i \in 1..Len(le[1].res.path) :
                   ~hits_solid(le[1].res.path[i], le[2].size)
            /\ ~hits_solid(le[2].translation, le[2].size)

\* C2 witness: the ball, clear of every solid, is asked for more unit steps
\* than its own width plus the thickness of the wall in its way, commits
\* some of them and is stopped.
C2_Witness ==
    /\ blast.sys = "collide"
    /\ ~hits_solid(blast.pre.translation, ball.size)
    /\ blast.res.move_x > BALL_SIZE + 2
    /\ blast.res.collided_x
    /\ Len(blast.res.path) > 0

\* The number of consecutive unit steps, at most n, that an entity of this
\* size at translation t can take along (dx, dy) without overlapping a solid.
FreeRun(t, size, dx, dy, n) ==
    LET free == {j \in 0..n :
                    \A i \in 1..j :
                        ~hits_solid(Vec(t.x + dx * i, t.y + dy * i), size)}
    IN CHOOSE j \in free : \A j2 \in free : j2 <= j

\* C3: on each axis, with n steps requested and k consecutive free unit steps
\* in the step direction, the entity is translated by exactly min(|n|, k)
\* units in that direction, and the axis flag is true iff |n| > k.
C3_StepsTaken ==
    \A le \in Resolved :
        LET l == le[1]
            nx == l.res.move_x
            ny == l.res.move_y
            kx == FreeRun(l.pre.translation, le[2].size, sign(nx), 0, Abs(nx))
            ky == FreeRun(l.res.after_x, le[2].size, 0, -sign(ny), Abs(ny))
        IN /\ l.res.after_x = Vec(l.pre.translation.x + sign(nx) * kx,
                                  l.pre.translation.y)
           /\ l.res.collided_x <=> (Abs(nx) > kx)
           /\ le[2].translation = Vec(l.res.after_x.x,
                                      l.res.after_x.y - sign(ny) * ky)
           /\ l.res.collided_y <=> (Abs(ny) > ky)

\* C3 witness: a run stopped part of the way on X (0 < k < |n|) and a run
\* blocked on the first unit step of Y (k = 0, n # 0) with no translation.
C3_Witness ==
    /\ blast.sys = "collide"
    /\ blast.res.collided_x
    /\ blast.res.after_x.x # blast.pre.translation.x
    /\ plast.sys = "collide"
    /\ plast.res.move_y # 0
    /\ plast.res.collided_y
    /\ player.translation.y = plast.pre.translation.y

\* The ball response has just handled a notification with this Y flag.
BallResponded(collided_y) ==
    /\ blast.sys = "respond"
    /\ Len(blast.evs) = 1
    /\ blast.evs[1].collided_y = collided_y

\* C4: the bounce counter stays within 0..MAX_BALL_BOUNCES, and it changes
\* only in the ball collision response to a notification with collided_y,
\* where it goes up by one or back to 0.
C4_BouncesBounded ==
    /\ ball.bounces \in 0..MAX_BALL_BOUNCES
    /\ [][/\ ball'.bounces \in 0..MAX_BALL_BOUNCES
          /\ ball'.bounces # ball.bounces =>
                /\ "ball_collision_response_system" \in done' \ done
                /\ \E i \in 1..Len(events.Ball) : events.Ball[i].collided_y
                /\ \/ ball'.bounces = ball.bounces + 1
                   \/ ball'.bounces = 0]_vars

\* C4 witness: a response to a Y collision has raised the counter from 0 to
\* the limit.
C4_Witness ==
    /\ BallResponded(TRUE)
    /\ blast.pre.bounces = 0
    /\ ball.bounces = MAX_BALL_BOUNCES

\* C5 as claimed: after the response to a Y collision met with the counter
\* below the limit, velocity.y is -1.5 times the incoming velocity.y, the
\* counter is one higher and on_ground is false.
C5_BounceLeavesGround ==
    (BallResponded(TRUE) /\ blast.pre.bounces < MAX_BALL_BOUNCES) =>
        /\ 2 * ball.movement.velocity.y = -3 * blast.pre.movement.velocity.y
        /\ ball.bounces = blast.pre.bounces + 1
        /\ ~ball.movement.on_ground

\* C5 amended: after the response to a Y collision met with the counter
\* below the limit, velocity.y is -1.5 times the incoming velocity.y, the
\* counter is one higher and on_ground is true: the resolver set it on the Y
\* collision and the bounce leaves it alone.
C5_BounceKeepsGround ==
    (BallResponded(TRUE) /\ blast.pre.bounces < MAX_BALL_BOUNCES) =>
        /\ 2 * ball.movement.velocity.y = -3 * blast.pre.movement.velocity.y
        /\ ball.bounces = blast.pre.bounces + 1
        /\ ball.movement.on_ground

\* C5 witness: the ball strikes the ground at +50 px/s with counter 0 and
\* leaves the response at -75 px/s with counter 1.
C5_Witness ==
    /\ BallResponded(TRUE)
    /\ blast.pre.bounces = 0
    /\ blast.pre.movement.velocity.y = 50 * Scale
    /\ blast.res.move_y > 0
    /\ ball.movement.velocity.y = -75 * Scale
    /\ ball.bounces = 1

\* The ball as a landing leaves it.
Landed ==
    /\ ball.movement.velocity.y = 0
    /\ ball.movement.on_ground
    /\ ball.bounces = 0

\* C6: the response to a Y collision met with the counter at or above the
\* limit is a landing (velocity.y = 0, on_ground, counter 0); and the Y
\* collision that follows a bounce from counter 0 is a landing.
C6_LandingAtLimit ==
    BallResponded(TRUE) =>
        /\ blast.pre.bounces >= MAX_BALL_BOUNCES => Landed
        /\ (/\ Len(blast.y_hits) >= 2
            /\ blast.y_hits[Len(blast.y_hits) - 1] = 0) => Landed

\* C6 witness: a bounce from counter 0 at an incoming speed other than 0,
\* then at the next Y collision a landing.
C6_Witness ==
    /\ BallResponded(TRUE)
    /\ blast.y_hits = <<0, MAX_BALL_BOUNCES>>
    /\ blast.pre.movement.velocity.y # 0
    /\ Landed

\* C7: the response to a notification with collided_x multiplies velocity.x
\* by -1.5 whatever the bounce counter, and a notification without
\* collided_y leaves velocity.y, on_ground and the counter unchanged.
C7_XBounce ==
    /\ (blast.sys = "respond" /\ Len(blast.evs) = 1 /\ blast.evs[1].collided_x)
          => 2 * ball.movement.velocity.x = -3 * blast.pre.movement.velocity.x
    /\ BallResponded(FALSE) =>
          /\ ball.movement.velocity.y = blast.pre.movement.velocity.y
          /\ ball.movement.on_ground = blast.pre.movement.on_ground
          /\ ball.bounces = blast.pre.bounces

\* C7 witness: an X collision alone, met with the counter at the limit and
\* velocity.x and velocity.y other than 0.
C7_Witness ==
    /\ BallResponded(FALSE)
    /\ blast.evs[1].collided_x
    /\ blast.pre.bounces = MAX_BALL_BOUNCES
    /\ blast.pre.movement.velocity.x # 0
    /\ blast.pre.movement.velocity.y # 0

\* C8 as claimed: after the player integrator has run with on_ground and the
\* jump key just pressed, velocity.y is JUMP_SPEED, var_jump_timer is
\* VAR_JUMP_TIME (> 0) and var_jump_speed is JUMP_SPEED; off the ground the
\* rising edge changes nothing: the step is the one taken without it.
C8_JumpSetsSpeed ==
    (plast.sys = "move" /\ keys.jump_just) =>
        IF plast.pre.movement.on_ground
        THEN /\ player.movement.velocity.y = JUMP_SPEED * Scale
             /\ player.jump.var_jump_timer = VAR_JUMP_TIME
             /\ VAR_JUMP_TIME > 0
             /\ player.jump.var_jump_speed = JUMP_SPEED * Scale
        ELSE player = player_movement_system(
                          plast.pre, [keys EXCEPT !.jump_just = FALSE])

\* The player integrator has just counted var_jump_timer down by one tick
\* (a release that zeroes a timer of one tick is not a count-down).
CountedDown ==
    /\ plast.sys = "move"
    /\ player.jump.var_jump_timer = plast.pre.jump.var_jump_timer - 1
    /\ player.jump.var_jump_timer = 0 => keys.jump

\* C9 as claimed: whenever the integrator counts var_jump_timer down, the
\* jump key is held and the player was airborne as the integrator ran.
C9_CountDownAirborne ==
    CountedDown => (keys.jump /\ ~plast.pre.movement.on_ground)

\* The tick began with the player at rest on a solid: clear of every solid,
\* one unit further down overlapping one, velocity (0, 0), on_ground, and a
\* carried remainder that a resolver run can leave (at most half a pixel).
AtRestAtStart ==
    LET p == start.player
    IN /\ ~hits_solid(p.translation, p.size)
       /\ hits_solid(Vec(p.translation.x, p.translation.y - 1), p.size)
       /\ p.movement.velocity = Vec(0, 0)
       /\ p.movement.on_ground
       /\ 2 * Abs(p.movement.velocity_remainder.x) <= Pixel
       /\ 2 * Abs(p.movement.velocity_remainder.y) <= Pixel

\* The three Player-track systems have run in this tick, with no key held.
IdleTickDone ==
    /\ "player_collision_response_system" \in done
    /\ keys = [left |-> FALSE, right |-> FALSE, jump |-> FALSE,
               jump_just |-> FALSE]

\* C10 as claimed: after one complete tick of a player at rest with no keys
\* held, velocity.x is 0, velocity.y has been zeroed by the response to a Y
\* collision, on_ground is true and the position is unchanged.
C10_RestZeroed ==
    (AtRestAtStart /\ IdleTickDone) =>
        /\ player.movement.velocity = Vec(0, 0)
        /\ plast.res.collided_y
        /\ player.movement.on_ground
        /\ player.translation = start.player.translation

\* C10 amended: after that tick velocity.x is 0, on_ground is true and
\* translation.y is unchanged.  When the carried remainder.y is at least a
\* quarter pixel, one Y step is requested, the ground blocks it and the
\* response zeroes velocity.y; below that no Y step is requested, nothing
\* collides and velocity.y keeps the gravity step of 15 px/s.  translation.x
\* is unchanged, except that a carried remainder.x of exactly half a pixel is
\* rounded to one unit step, taken if it is free.
C10_RestAmended ==
    (AtRestAtStart /\ IdleTickDone) =>
        LET p == start.player
            r == p.movement.velocity_remainder
            nx == IF 2 * Abs(r.x) = Pixel THEN 1 ELSE 0
        IN /\ player.movement.velocity.x = 0
           /\ player.movement.on_ground
           /\ player.translation.y = p.translation.y
           /\ IF 4 * r.y >= Pixel
              THEN plast.res.collided_y /\ player.movement.velocity.y = 0
              ELSE /\ ~plast.res.collided_y
                   /\ player.movement.velocity.y
                          = (PLAYER_MASS * Scale) \div TICK_RATE
           /\ player.translation.x = p.translation.x
                  + sign(r.x) * FreeRun(p.translation, p.size, sign(r.x), 0, nx)

\* C10 witness: a tick of a player at rest, no key held, in which the ground
\* blocked a Y step and the response zeroed velocity.y.
C10_Witness ==
    /\ AtRestAtStart
    /\ IdleTickDone
    /\ plast.sys = "respond"
    /\ plast.evs # <<>>
    /\ plast.pre.movement.velocity.y # 0
    /\ player.movement.velocity.y = 0

\* C11 as claimed: after every run of collision_system the entity's on_ground
\* equals that run's collided_y, also when no Y step was requested.
C11_GroundIsCollidedY ==
    \A le \in Resolved : le[2].movement.on_ground = le[1].res.collided_y

\* C11 amended: after a run of collision_system that requested at least one
\* Y step, on_ground equals that run's collided_y; after a run that requested
\* none, collided_y is false and on_ground is what it was before the run.
\* The X outcome has no part in it.
C11_GroundFromYSteps ==
    \A le \in Resolved :
        /\ le[1].res.move_y # 0 =>
               le[2].movement.on_ground = le[1].res.collided_y
        /\ le[1].res.move_y = 0 =>
               /\ ~le[1].res.collided_y
               /\ le[2].movement.on_ground = le[1].pre.movement.on_ground

\* C11 witness: a player run with no Y step requested that keeps on_ground
\* true though nothing collided on Y, beside a ball run blocked on X alone
\* whose on_ground stays false.
C11_Witness ==
    /\ plast.sys = "collide"
    /\ plast.res.move_y = 0
    /\ ~plast.res.collided_y
    /\ plast.pre.movement.on_ground
    /\ player.movement.on_ground
    /\ blast.sys = "collide"
    /\ blast.res.collided_x
    /\ ~blast.res.collided_y
    /\ ~ball.movement.on_ground

\* C12: a notification is pending only between the resolver run that sent it
\* and the response of its own kind in the same tick; the response has
\* handled exactly what that tick's resolver of its kind sent (one
\* notification or none, addressed to its kind) and has left nothing in the
\* queue; so none is pending when a tick ends or begins, and none is handled
\* twice or by the other kind's response.
C12_ConsumedOnceInTick ==
    /\ events.Player # <<>> =>
           /\ "collision_system_Player" \in done
           /\ "player_collision_response_system" \notin done
           /\ events.Player = emitted("Player", plast.res)
    /\ events.Ball # <<>> =>
           /\ "collision_system_Ball" \in done
           /\ "ball_collision_response_system" \notin done
           /\ events.Ball = emitted("Ball", blast.res)
    /\ plast.sys = "respond" =>
           /\ plast.evs = emitted("Player", plast.res)
           /\ \A i \in 1..Len(plast.evs) : plast.evs[i].collider = "Player"
    /\ blast.sys = "respond" =>
           /\ blast.evs = emitted("Ball", blast.res)
           /\ \A i \in 1..Len(blast.evs) : blast.evs[i].collider = "Ball"
    /\ done \in {{}, Systems} => events = [Player |-> <<>>, Ball |-> <<>>]

\* C12 witness: in the second tick the player response has handled the
\* notification of that tick's player resolver and emptied the queue, while
\* the ball's notification is still waiting for the ball response.
C12_Witness ==
    /\ tick = 1
    /\ plast.sys = "respond"
    /\ Len(plast.evs) = 1
    /\ events.Player = <<>>
    /\ blast.sys = "collide"
    /\ Len(events.Ball) = 1

\* C13: in every tick and every schedule, for each kind the resolver has run
\* only if the integrator has, and the response only if the resolver has; the
\* resolver starts from what this tick's integrator left, and the response
\* from what this tick's resolver left.
C13_TrackOrder ==
    /\ "collision_system_Player" \in done => "player_movement_system" \in done
    /\ "player_collision_response_system" \in done =>
           "collision_system_Player" \in done
    /\ "collision_system_Ball" \in done => "ball_movement_system" \in done
    /\ "ball_collision_response_system" \in done =>
           "collision_system_Ball" \in done
    /\ plast.sys = "collide" =>
           plast.pre = player_movement_system(start.player, keys)
    /\ plast.sys = "respond" =>
           /\ plast.pre.movement = plast.res.movement
           /\ plast.pre.translation = plast.res.translation
    /\ blast.sys = "collide" =>
           blast.pre.movement = ball_movement_system(start.ball.movement)
    /\ blast.sys = "respond" =>
           /\ blast.pre.movement = blast.res.movement
           /\ blast.pre.translation = blast.res.translation

\* C13 witness: a schedule of the second tick in which the whole Ball track
\* has run between the player integrator and the player resolver.
C13_Witness ==
    /\ tick = 1
    /\ done = {"player_movement_system", "ball_movement_system",
               "collision_system_Ball", "ball_collision_response_system"}
    /\ plast.sys = "move"
    /\ blast.sys = "respond"

\* C14: a run of the player response sets velocity.x to 0 if a notification
\* it handles has collided_x and leaves it alone otherwise, and likewise
\* velocity.y with collided_y; it changes nothing else of the player
\* (translation, size, remainder, on_ground, Jump), nothing of the ball and no
\* solid; and a tick whose player resolver was blocked on X ends with the
\* player's velocity.x = 0.
C14_PlayerResponseFrame ==
    [][/\ "player_collision_response_system" \in done' \ done =>
              LET hit_x == \E i \in 1..Len(events.Player) :
                               events.Player[i].collided_x
                  hit_y == \E i \in 1..Len(events.Player) :
                               events.Player[i].collided_y
              IN /\ player'.movement.velocity.x =
                        IF hit_x THEN 0 ELSE player.movement.velocity.x
                 /\ player'.movement.velocity.y =
                        IF hit_y THEN 0 ELSE player.movement.velocity.y
                 /\ player' = [player EXCEPT
                                  !.movement.velocity = player'.movement.velocity]
                 /\ ball' = ball
                 /\ solids' = solids
       /\ (done' = Systems /\ plast'.res.collided_x) =>
              player'.movement.velocity.x = 0]_vars

\* C14 witness: the player, running and falling by the gravity step, was
\* blocked by the wall on X alone; the response has zeroed velocity.x and
\* kept velocity.y, and the tick is over.
C14_Witness ==
    /\ plast.sys = "respond"
    /\ Len(plast.evs) = 1
    /\ plast.evs[1].collided_x
    /\ ~plast.evs[1].collided_y
    /\ plast.pre.movement.velocity.x # 0
    /\ plast.pre.movement.velocity.y # 0
    /\ player.movement.velocity.x = 0
    /\ player.movement.velocity.y = plast.pre.movement.velocity.y
    /\ done = Systems

\* C15: approach(val, target, max_move) with max_move >= 0 returns a value
\* between val and target inclusive that differs from val by at most
\* max_move, and approach(v, v, d) = v.
C15_NoOvershoot ==
    call.returned =>
        /\ Min(call.val, call.target) <= call.result
        /\ call.result <= Max(call.val, call.target)
        /\ Abs(call.result - call.val) <= call.max_move
        /\ call.val = call.target => call.result = call.val

\* C15 witness: a call whose max_move is larger than the distance left to a
\* target above val: the result is the target.
C15_Witness ==
    /\ call.returned
    /\ call.val < call.target
    /\ call.val + call.max_move > call.target
    /\ call.result = call.target

\* System s runs in this step: it completes, or it panics.
Runs(s) ==
    \/ s \in done' \ done
    \/ panicked = "none" /\ panicked' = s

\* C16 as claimed: when the player integrator or the player resolver runs
\* with a number of Player entities other than one, or the ball integrator or
\* the ball resolver with a number of Ball entities other than one, the run
\* is a panic and no entity is changed.
C16_AbortUnlessSingleton ==
    [][/\ \A s \in {"player_movement_system", "collision_system_Player"} :
              (Runs(s) /\ Len(players) # 1) =>
                  /\ panicked' = s
                  /\ players' = players
                  /\ balls' = balls
       /\ \A s \in {"ball_movement_system", "collision_system_Ball"} :
              (Runs(s) /\ Len(balls) # 1) =>
                  /\ panicked' = s
                  /\ players' = players
                  /\ balls' = balls]_vars

\* What does hold of C16: the ball integrator and the resolver of either kind
\* panic without changing an entity when their query does not match exactly
\* one entity.
C16_UnwrapsPanic ==
    [][/\ (Runs("collision_system_Player") /\ Len(players) # 1) =>
              /\ panicked' = "collision_system_Player"
              /\ players' = players
              /\ balls' = balls
       /\ \A s \in {"ball_movement_system", "collision_system_Ball"} :
              (Runs(s) /\ Len(balls) # 1) =>
                  /\ panicked' = s
                  /\ players' = players
                  /\ balls' = balls]_vars

\* C17: after a run of collision_system the queue of its kind holds one
\* notification, carrying the run's collided_x and collided_y, if an axis
\* collided in the run, and none if neither did.
C17_OneNotification ==
    /\ plast.sys = "collide" =>
           events.Player =
               IF plast.res.collided_x \/ plast.res.collided_y
               THEN <<[collider |-> "Player",
                       collided_x |-> plast.res.collided_x,
                       collided_y |-> plast.res.collided_y]>>
               ELSE <<>>
    /\ blast.sys = "collide" =>
           events.Ball =
               IF blast.res.collided_x \/ blast.res.collided_y
               THEN <<[collider |-> "Ball",
                       collided_x |-> blast.res.collided_x,
                       collided_y |-> blast.res.collided_y]>>
               ELSE <<>>

\* C17 witness: the ball's run was blocked on X alone and has sent one
\* notification with collided_x true and collided_y false; the player's run
\* moved freely and has sent none.
C17_Witness ==
    /\ blast.sys = "collide"
    /\ blast.res.collided_x
    /\ ~blast.res.collided_y
    /\ Len(events.Ball) = 1
    /\ events.Ball[1].collided_x
    /\ ~events.Ball[1].collided_y
    /\ plast.sys = "collide"
    /\ plast.res.move_x # 0
    /\ ~plast.res.collided_x
    /\ ~plast.res.collided_y
    /\ events.Player = <<>>

\* The entity e after a run of collision_system on it.
Resolve(e) ==
    LET res == collision_system(e.movement, e.translation, e.size)
    IN [e EXCEPT !.movement = res.movement, !.translation = res.translation]

\* What that run sends.
Notify(kind, e) ==
    emitted(kind, collision_system(e.movement, e.translation, e.size))

\* C18: at every point of a tick, in every interleaving of the two tracks,
\* the player is what the Player-track systems run so far make of the player
\* the tick began with and the keys sampled, and the ball is what the
\* Ball-track systems run so far make of the ball the tick began with; so
\* the state at the end of the tick does not depend on the interleaving.
C18_TracksIndependent ==
    LET p1 == player_movement_system(start.player, keys)
        p2 == Resolve(p1)
        p3 == [p2 EXCEPT !.movement =
                   player_collision_response_system(@, Notify("Player", p1))]
        b1 == [start.ball EXCEPT !.movement = ball_movement_system(@)]
        b2 == Resolve(b1)
        b3 == ball_collision_response_system(b2, Notify("Ball", b1))
    IN /\ player =
              IF "player_collision_response_system" \in done THEN p3
              ELSE IF "collision_system_Player" \in done THEN p2
              ELSE IF "player_movement_system" \in done THEN p1
              ELSE start.player
       /\ ball =
              IF "ball_collision_response_system" \in done THEN b3
              ELSE IF "collision_system_Ball" \in done THEN b2
              ELSE IF "ball_movement_system" \in done THEN b1
              ELSE start.ball

\* C18 witness: the end of a tick in which both tracks met a collision and
\* answered it, and both entities have changed.
C18_Witness ==
    /\ done = Systems
    /\ plast.evs # <<>>
    /\ blast.evs # <<>>
    /\ player # start.player
    /\ ball # start.ball

\* The ball has landed and has not met a Y collision since: it is as a
\* landing leaves it, and the last Y collision answered was a landing.
HasLanded ==
    /\ Landed
    /\ blast.y_hits # <<>>
    /\ blast.y_hits[Len(blast.y_hits)] >= MAX_BALL_BOUNCES

C20_EventuallyLands ==
    (\E height \in Windows : solids = {ground(1280, height)}) =>
        <>(/\ Landed
           /\ Len(blast.y_hits) = MAX_BALL_BOUNCES + 1
           /\ \A i \in 1..Len(blast.y_hits) : blast.y_hits[i] = i - 1
           /\ hits_solid(Vec(ball.translation.x, ball.translation.y - 1),
                         ball.size))

\* C20 witness: on the court of the default window the ball has bounced once
\* off the ground and the response to its second Y collision has just landed
\* it on the ground.
C20_Witness ==
    /\ solids = Court
    /\ start.ball.movement.velocity.y > 0
    /\ BallResponded(TRUE)
    /\ blast.y_hits = <<0, MAX_BALL_BOUNCES>>
    /\ Landed
    /\ hits_solid(Vec(ball.translation.x, ball.translation.y - 1), ball.size)
====
